---- MODULE Spec2Model ----
(***************************************************************************)
(* Model of src/wasm/caf_wrapper.cpp: the Content-Aware Fill wrapper that  *)
(* converts an interleaved RGBA buffer and a mask buffer to planar CImg    *)
(* images, runs the inpainting plugin and writes the colour channels back. *)
(*                                                                         *)
(* The wrapper's own code (clamp8, the two conversion loops, the call      *)
(* sequence of inpaintImage, getBufferSize) is translated from the source. *)
(* The plugin routine inpaint_patch lives in inpaint.h, which is not part  *)
(* of the available sources; it is modelled from the specification         *)
(* (sections 4.3, 4.4 and 7).                                              *)
(***************************************************************************)
EXTENDS Integers, Sequences, FiniteSets, TLC

VARIABLES
    pc,          \* "idle" before the call, "done" after it
    op,          \* the exported function that was called
    width,       \* argument width
    height,      \* argument height
    patchSize,   \* argument patchSize
    iterations,  \* argument iterations
    imgBuf,      \* heap bytes at imgPtr (interleaved RGBA)
    maskBuf,     \* heap bytes at maskPtr (interleaved RGBA)
    imgIn,       \* the bytes at imgPtr when the call was made
    maskIn,      \* the bytes at maskPtr when the call was made
    img,         \* the local CImg<uint8_t> img when the call ended
    mask,        \* the local CImg<uint8_t> mask when the call ended
    called,      \* whether img.inpaint_patch was invoked
    err,         \* how the call ended: "none" or the error that ended it
    ret          \* the value getBufferSize returned

vars == <<pc, op, width, height, patchSize, iterations, imgBuf, maskBuf,
          imgIn, maskIn, img, mask, called, err, ret>>

----------------------------------------------------------------------------
(* Bounds of the model *)

MaxW == 3
MaxH == 2
MaxPatch == 3
MaxIter == 5

----------------------------------------------------------------------------
(* Helpers *)

Min(a, b) == IF a < b THEN a ELSE b
Max(a, b) == IF a > b THEN a ELSE b

\* Pixel coordinates visited by "for y < height, for x < width".
Pixels(w, h) == (0 .. w - 1) \X (0 .. h - 1)

\* The samples (x, y, channel) of a 3-channel planar image.
Samples(w, h) == (0 .. w - 1) \X (0 .. h - 1) \X (0 .. 2)

\* srcIdx / dstIdx: byte offset of pixel (x,y) in an interleaved RGBA buffer.
Idx(x, y, w) == (y * w + x) * 4

\* A heap byte at a 0-based offset (TLA+ sequences are 1-based).
Byte(buf, off) == buf[off + 1]

----------------------------------------------------------------------------
(* The wrapper's code *)

clamp8_tight(v) == Max(0, Min(254, v)) % 256

\* static inline uint8_t clamp8(int v)
clamp8(v) == Max(0, Min(255, v)) % 256

\* First loop, lines 82-84: img(x,y,0,c) = imgData[srcIdx + c] for c = 0,1,2.
ToPlanar(buf, w, h) ==
    [t \in Samples(w, h) |-> Byte(buf, Idx(t[1], t[2], w) + t[3])]

ToMask_inclusive(buf, w, h) ==
    [p \in Pixels(w, h) |-> IF Byte(buf, Idx(p[1], p[2], w)) >= 128 THEN 255 ELSE 0]

ToMask_green(buf, w, h) ==
    [p \in Pixels(w, h) |-> IF Byte(buf, Idx(p[1], p[2], w) + 1) > 128 THEN 255 ELSE 0]

\* First loop, line 88: mask(x,y,0,0) = (maskData[srcIdx] > 128) ? 255 : 0.
ToMask(buf, w, h) ==
    [p \in Pixels(w, h) |-> IF Byte(buf, Idx(p[1], p[2], w)) > 128 THEN 255 ELSE 0]

WriteBack_opaque(buf, im, w, h) ==
    [i \in 1 .. Len(buf) |->
        LET px == (i - 1) \div 4
            c  == (i - 1) % 4
        IN  IF px < w * h /\ c < 3
            THEN clamp8(im[<<px % w, px \div w, c>>])
            ELSE 255]

\* Second loop, lines 103-111: outData[dstIdx + c] = clamp8(img(x,y,0,c)) for
\* c = 0,1,2; the byte at dstIdx + 3 is not assigned.
WriteBack(buf, im, w, h) ==
    [i \in 1 .. Len(buf) |->
        LET px == (i - 1) \div 4
            c  == (i - 1) % 4
        IN  IF px < w * h /\ c < 3
            THEN clamp8(im[<<px % w, px \div w, c>>])
            ELSE buf[i]]

----------------------------------------------------------------------------
(* The plugin routine, modelled from the specification *)

FillCells(m) == {p \in DOMAIN m : m[p] # 0}
KnownCells(m) == {p \in DOMAIN m : m[p] = 0}

\* The colour stored at cell p of a planar image.
RGB(im, p) == <<im[<<p[1], p[2], 0>>], im[<<p[1], p[2], 1>>], im[<<p[1], p[2], 2>>]>>

\* The colours a fill cell may be synthesized from: those of known cells.
SourceColours(im, m) == {RGB(im, p) : p \in KnownCells(m)}

\* The image after every fill cell took the colour chosen for it.
Synthesize(im, m, choice) ==
    [t \in DOMAIN im |->
        IF <<t[1], t[2]>> \in FillCells(m)
        THEN choice[<<t[1], t[2]>>][t[3] + 1]
        ELSE im[t]]

inpaint_patch_anySource(im, m, ps, it) ==
    IF FillCells(m) = {}
    THEN {[err |-> "none", img |-> im]}
    ELSE IF KnownCells(m) = {}
    THEN {[err |-> "InvalidMask", img |-> im]}
    ELSE {[err |-> "none", img |-> Synthesize(im, m, choice)] :
             choice \in [FillCells(m) -> {RGB(im, p) : p \in DOMAIN m}]}

inpaint_patch_noCheck(im, m, ps, it) ==
    IF FillCells(m) = {} \/ KnownCells(m) = {}
    THEN {[err |-> "none", img |-> im]}
    ELSE {[err |-> "none", img |-> Synthesize(im, m, choice)] :
             choice \in [FillCells(m) -> SourceColours(im, m)]}

\* img.inpaint_patch(mask, patch_size, nb_iters): the outcomes of one run.
\* An empty fill region leaves the image alone; a mask without a known cell
\* is an InvalidMask error raised before synthesis; otherwise every fill cell
\* receives the colour of some known cell (the offsets are random, so every
\* choice of sources is an outcome) and no other cell is written.
inpaint_patch(im, m, ps, it) ==
    IF FillCells(m) = {}
    THEN {[err |-> "none", img |-> im]}
    ELSE IF KnownCells(m) = {}
    THEN {[err |-> "InvalidMask", img |-> im]}
    ELSE {[err |-> "none", img |-> Synthesize(im, m, choice)] :
             choice \in [FillCells(m) -> SourceColours(im, m)]}

----------------------------------------------------------------------------
(* inpaintImage as a whole *)

ResultBuffer_cleared(buf, r, w, h) ==
    IF r.err # "none"
    THEN [i \in 1 .. Len(buf) |-> 0]
    ELSE WriteBack(buf, r.img, w, h)

\* Lines 97-111: an exception leaving inpaint_patch leaves inpaintImage too,
\* so the write-back loop runs only when the routine returned.
ResultBuffer(buf, r, w, h) ==
    IF r.err # "none"
    THEN buf
    ELSE WriteBack(buf, r.img, w, h)

----------------------------------------------------------------------------
(* getBufferSize: 32-bit arithmetic *)

IntMax == 2147483647

\* The 32-bit two's-complement result of width * height * 4 for arguments in
\* 0 .. 65535. The low 30 bits of width * height are computed from the two
\* bytes of width, so that no intermediate value leaves the checker's
\* integers; the multiplication by 4 shifts them to bits 2 .. 31, and bit 31
\* is the sign.
WrappedSize(w, h) ==
    LET hiPart == (((w \div 256) * h) % (2 ^ 22)) * 256
        loPart == (w % 256) * h
        low30  == (hiPart + loPart) % (2 ^ 30)
    IN  IF low30 >= 2 ^ 29 THEN 4 * (low30 - 2 ^ 30) ELSE 4 * low30

\* width * height * 4 fits a signed 32-bit int (no intermediate overflows).
Fits(w, h) == h = 0 \/ w <= (IntMax \div 4) \div h

\* int getBufferSize(int width, int height) { return width * height * 4; }
\* Signed overflow is undefined: the build either wraps modulo 2^32 (the
\* i32.mul of the WebAssembly target) or traps (an overflow-checking build).
getBufferSize(w, h) ==
    IF Fits(w, h)
    THEN {[ret |-> w * h * 4, err |-> "none"]}
    ELSE {[ret |-> WrappedSize(w, h), err |-> "none"],
          [ret |-> 0, err |-> "trap"]}

----------------------------------------------------------------------------
(* Inputs: the buffers a caller hands over *)

ColourC == <<200, 100, 50, 255>>
ColourD == <<0, 255, 129, 7>>

MaskZ == <<0, 0, 0, 0>>
MaskE == <<128, 255, 255, 255>>
MaskF == <<129, 0, 0, 0>>
MaskW == <<255, 255, 255, 255>>

\* The interleaved buffer of n pixels, pixel k (1-based, row-major) being px[k].
BufOf(px, n) == [i \in 1 .. 4 * n |-> px[((i - 1) \div 4) + 1][((i - 1) % 4) + 1]]

\* Image buffers: one colour, one pixel of another colour, or stripes.
Images(n) ==
    {BufOf([i \in 1 .. n |-> c], n) : c \in {ColourC, ColourD}}
    \cup {BufOf([i \in 1 .. n |-> IF i = k THEN ColourD ELSE ColourC], n) : k \in 1 .. n}
    \cup {BufOf([i \in 1 .. n |-> IF i % 2 = 0 THEN ColourD ELSE ColourC], n)}

\* Mask buffers: empty, full, one marked pixel, a pixel at the threshold
\* next to one just above it, or a marked 2x2 block.
Masks(w, h) ==
    LET n == w * h
        InBlock(i, x, y) ==
            LET px == (i - 1) % w
                py == (i - 1) \div w
            IN  px \in {x, x + 1} /\ py \in {y, y + 1}
    IN  {BufOf([i \in 1 .. n |-> m], n) : m \in {MaskZ, MaskF, MaskW}}
        \cup {BufOf([i \in 1 .. n |-> IF i = k THEN MaskF ELSE MaskZ], n) : k \in 1 .. n}
        \cup {BufOf([i \in 1 .. n |->
                        IF i = k THEN MaskE
                        ELSE IF i = (k % n) + 1 THEN MaskF ELSE MaskZ], n) : k \in 1 .. n}
        \cup {BufOf([i \in 1 .. n |-> IF InBlock(i, b[1], b[2]) THEN MaskW ELSE MaskZ], n) :
                 b \in (0 .. w - 2) \X (0 .. h - 2)}

\* Arguments of getBufferSize, small ones and ones near the 32-bit limits.
SizeArgs == {0, 1, 2, 3, 640, 23170, 23171, 32768, 46341, 65535}

----------------------------------------------------------------------------
(* The state machine *)

NoImage == [t \in {} |-> 0]

\* A caller has filled both heap buffers and is about to call inpaintImage.
Init ==
    /\ pc = "idle"
    /\ op = "none"
    /\ width \in 0 .. MaxW
    /\ height \in 0 .. MaxH
    /\ patchSize \in 0 .. MaxPatch
    /\ iterations \in 0 .. MaxIter
    /\ imgBuf \in Images(width * height)
    /\ maskBuf \in Masks(width, height)
    /\ imgIn = imgBuf
    /\ maskIn = maskBuf
    /\ img = NoImage
    /\ mask = NoImage
    /\ called = FALSE
    /\ err = "none"
    /\ ret = 0

\* void inpaintImage(imgPtr, maskPtr, width, height, patchSize, iterations)
InpaintImage ==
    /\ pc = "idle"
    /\ LET im0 == ToPlanar(imgBuf, width, height)
           m   == ToMask(maskBuf, width, height)
       IN  \E r \in inpaint_patch(im0, m, patchSize, iterations) :
               /\ img' = r.img
               /\ mask' = m
               /\ err' = r.err
               /\ imgBuf' = ResultBuffer(imgBuf, r, width, height)
    /\ called' = TRUE
    /\ op' = "inpaintImage"
    /\ pc' = "done"
    /\ UNCHANGED <<width, height, patchSize, iterations, maskBuf, imgIn, maskIn, ret>>

Next == InpaintImage

Spec == Init /\ [][Next]_vars

\* A caller is about to ask for the size of a transfer buffer.
SizeInit ==
    /\ pc = "idle"
    /\ op = "none"
    /\ width \in SizeArgs
    /\ height \in SizeArgs
    /\ patchSize = 0
    /\ iterations = 0
    /\ imgBuf = <<>>
    /\ maskBuf = <<>>
    /\ imgIn = <<>>
    /\ maskIn = <<>>
    /\ img = NoImage
    /\ mask = NoImage
    /\ called = FALSE
    /\ err = "none"
    /\ ret = 0

\* int getBufferSize(int width, int height)
GetBufferSize ==
    /\ pc = "idle"
    /\ \E r \in getBufferSize(width, height) :
           /\ ret' = r.ret
           /\ err' = r.err
    /\ op' = "getBufferSize"
    /\ pc' = "done"
    /\ UNCHANGED <<width, height, patchSize, iterations, imgBuf, maskBuf,
                   imgIn, maskIn, img, mask, called>>

SizeNext == GetBufferSize

SizeSpec == SizeInit /\ [][SizeNext]_vars

----------------------------------------------------------------------------
(* Properties *)

Done == pc = "done" /\ op = "inpaintImage"

AllPixels == Pixels(width, height)

\* The red byte of the mask buffer for pixel p, as the caller supplied it.
MaskRed(p) == Byte(maskIn, Idx(p[1], p[2], width))

\* Channel c of pixel p in the image buffer before and after the call.
InByte(p, c) == Byte(imgIn, Idx(p[1], p[2], width) + c)
OutByte(p, c) == Byte(imgBuf, Idx(p[1], p[2], width) + c)

InRGB(p) == <<InByte(p, 0), InByte(p, 1), InByte(p, 2)>>
OutRGB(p) == <<OutByte(p, 0), OutByte(p, 1), OutByte(p, 2)>>

Marked == {p \in AllPixels : MaskRed(p) > 128}
Unmarked == {p \in AllPixels : MaskRed(p) <= 128}

\* C1: after inpaintImage, every pixel whose mask red byte is <= 128 has the
\* R, G and B bytes it had before the call.
C1_MaskContainment ==
    Done => \A p \in Unmarked : OutRGB(p) = InRGB(p)

C1_Witness ==
    /\ Done
    /\ err = "none"
    /\ \E p \in Unmarked : MaskRed(p) = 128 /\ OutRGB(p) = InRGB(p)
    /\ \E q \in Marked : OutRGB(q) # InRGB(q)

\* C2: after inpaintImage, the alpha byte of every pixel, marked or not, is
\* the alpha byte it had before the call.
C2_AlphaPreserved ==
    Done => \A p \in AllPixels : OutByte(p, 3) = InByte(p, 3)

C2_Witness ==
    /\ Done
    /\ err = "none"
    /\ \E q \in Marked : OutRGB(q) # InRGB(q) /\ InByte(q, 3) = 7 /\ OutByte(q, 3) = 7

\* C3: with a mask buffer that is all zero, inpaintImage returns normally and
\* the image buffer is byte-identical to the input in all four channels.
C3_NoOpIdentity ==
    (Done /\ \A i \in 1 .. Len(maskIn) : maskIn[i] = 0)
        => (err = "none" /\ imgBuf = imgIn)

C3_Witness ==
    /\ Done
    /\ width > 0 /\ height > 0
    /\ \A i \in 1 .. Len(maskIn) : maskIn[i] = 0
    /\ \E i, j \in 1 .. Len(imgIn) : imgIn[i] = 255 /\ imgIn[j] = 0 /\ i % 4 # 0
    /\ imgBuf = imgIn

\* C4: a call with width <= 0 or height <= 0 ends with the OutOfBounds error
\* and without the inpainting routine having been invoked.
C4_DimensionRejection ==
    (Done /\ (width <= 0 \/ height <= 0))
        => (err = "OutOfBounds" /\ ~called)

C6_NoPartialOutput ==
    Done => (/\ err \in {"none", "OutOfBounds", "InvalidMask", "AllocationFailure"}
             /\ Len(imgBuf) = Len(imgIn)
             /\ err # "none" => imgBuf = imgIn)

C6_Witness ==
    /\ Done
    /\ err # "none"
    /\ Len(imgIn) > 0
    /\ imgBuf = imgIn

\* C7: getBufferSize returns the mathematical value width*height*4, and
\* reports AllocationFailure when that value does not fit 32 bits.
C7_BufferSizeExact ==
    (pc = "done" /\ op = "getBufferSize")
        => IF Fits(width, height)
           THEN ret = width * height * 4 /\ err = "none"
           ELSE err = "AllocationFailure"

\* The marked region is a single pixel or a 2x2 block.
SingleOrBlock ==
    \/ Cardinality(Marked) = 1
    \/ \E p \in AllPixels :
           Marked = {<<p[1], p[2]>>, <<p[1] + 1, p[2]>>,
                     <<p[1], p[2] + 1>>, <<p[1] + 1, p[2] + 1>>}

C10_MaskThreshold ==
    Done => (/\ DOMAIN mask = AllPixels
             /\ \A p \in AllPixels : (mask[p] = 255 <=> MaskRed(p) > 128)
             /\ \A p \in AllPixels : (mask[p] = 0 <=> MaskRed(p) <= 128)
             /\ maskBuf = maskIn)

C10_Witness ==
    /\ Done
    /\ \E p, q \in AllPixels :
           /\ MaskRed(p) = 128
           /\ Byte(maskIn, Idx(p[1], p[2], width) + 1) = 255
           /\ mask[p] = 0
           /\ MaskRed(q) = 129
           /\ Byte(maskIn, Idx(q[1], q[2], width) + 1) = 0
           /\ mask[q] = 255

====
